---- MODULE Spec2Model ----
(***************************************************************************)
(* Model of mission/code/extract_episodes.py: create_new_dataset (the      *)
(* episode extraction and multi-camera reconstruction pipeline) and the    *)
(* helpers it calls (load_all_data, get_video_duration,                    *)
(* extract_video_segment).                                                 *)
(*                                                                         *)
(* Times are integers (ticks) instead of floats.  Python's 0-based         *)
(* positions are kept: csv_idx, frame_index, index and the positions of    *)
(* episode_metadata are 0-based, and At0(s, i) reads s[i] as Python does.  *)
(* The per-column statistics of lines 321-330 are not modelled.            *)
(***************************************************************************)
EXTENDS Integers, Sequences, FiniteSets, TLC

\* ------------------------------------------------------------------ bounds
MaxReq == 2       \* longest request list (rows of the CSV)
MaxRows == 2      \* most rows in the source table
MaxDev == 2       \* most transcoder deviations (failure, drift, failed probe) in one run

\* ------------------------------------------------------------- input sets
None == <<>>                                    \* Python None / pandas NA; a present value v is <<v>>
Cameras == <<"top", "side", "front">>           \* the camera list of lines 315, 362
Tasks == {"pick", "place"}
\* A clip name is a sequence of tokens: "e" stands for the literal text
\* "episode_", "0".."9" for a decimal digit, "x" for any other text.
NaN == <<"nan">>                                \* what pandas reads from an empty cell: the float nan
ClipNames == {<<"e", "1">>, <<"x">>, NaN}
Windows == {<<0, 1>>, <<1, 3>>}                 \* <<start_time, end_time>>
SrcRows == {<<0, 0>>, <<1, 1>>, <<1, 2>>}       \* <<episode_index, timestamp>> of a source row
Drifts == {-1, 0, 1}                            \* measured minus requested segment duration
AllColumns == {"clip_name", "start_time", "end_time", "task"}

\* ------------------------------------------------------------ sequences
At0(s, i) == s[i + 1]

Range(s) == {s[i] : i \in 1..Len(s)}

RECURSIVE Flatten(_)
Flatten(ss) == IF ss = <<>> THEN <<>> ELSE Head(ss) \o Flatten(Tail(ss))

SeqsUpTo(S, n) == UNION {[1..k -> S] : k \in 1..n}

Max(S) == CHOOSE m \in S : \A x \in S : x <= m
Min(S) == CHOOSE m \in S : \A x \in S : m <= x

Some(v) == <<v>>
Val(o) == o[1]

\* ------------------------------------------------------------ variables
VARIABLES
    csv,                \* episodes_df: the request rows, in file order
    columns,            \* episodes_df.columns
    has_clip_names,     \* 'clip_name' in episodes_df.columns
    raw,                \* the rows of the source parquet files, in file order
    src_meta,           \* the source meta/episodes table (None: no such directory or file)
    src_videos,         \* the cameras find_video_file finds a source video for
    devs,               \* transcoder deviations the run may still meet
    pc,                 \* position in create_new_dataset
    error,              \* the exception that ended the run ("" while none)
    source_data,        \* load_all_data's result
    episodes_meta,      \* the loaded source episode metadata, or None
    csv_idx,            \* loop variable of the loop the run is in
    all_extracted_data, \* list of renumbered episode tables
    episode_metadata,   \* list of OutputEpisodeMeta rows
    task_map,           \* task label -> task index
    next_task_index,
    cumulative_times,   \* csv_idx -> start of that episode in the concatenated video
    cam,                \* position in Cameras of the camera being processed (1-based)
    segment_files,      \* the csv_idx of the segments in the concat list, in order
    seg,                \* camera -> csv_idx -> what extraction produced for it
    out,                \* the files of output_dataset
    xs                  \* one call of extract_video_segment, step by step

vars == <<csv, columns, has_clip_names, raw, src_meta, src_videos, devs, pc, error, source_data,
          episodes_meta, csv_idx, all_extracted_data, episode_metadata, task_map,
          next_task_index, cumulative_times, cam, segment_files, seg, out, xs>>

\* what create_new_dataset never writes
inputs == <<csv, columns, has_clip_names, raw, src_meta, src_videos, xs>>
slicing == <<all_extracted_data, episode_metadata, task_map, next_task_index>>
video == <<cumulative_times, cam, segment_files, seg>>

\* ------------------------------------------------- the request list's columns
\* lines 178-181: the required columns the request list does not have
required_columns == {"start_time", "end_time", "task"}

missing_columns_unchecked(cols) == {}

missing_columns(cols) == required_columns \ cols

\* --------------------------------------------------------- load_all_data
IsSortedByTimestamp(s) == \A i \in 1..Len(s) - 1 : s[i].timestamp <= s[i + 1].timestamp

Permutations1(n) == {p \in [1..n -> 1..n] : \A i, j \in 1..n : p[i] = p[j] => i = j}

\* pd.concat(...).sort_values('timestamp'): the rows ordered by timestamp.  The
\* default sort is not stable, so rows of equal timestamp come in any order.
load_all_data_unsorted(rows) == {rows}

load_all_data(rows) ==
    {s \in {[i \in 1..Len(rows) |-> rows[p[i]]] : p \in Permutations1(Len(rows))} :
        IsSortedByTimestamp(s)}

\* ------------------------------------------ re.search(r'episode_(\d+)', s)
Digits == <<"0", "1", "2", "3", "4", "5", "6", "7", "8", "9">>
IsDigit(t) == \E d \in 1..Len(Digits) : Digits[d] = t
DigitValue(t) == (CHOOSE d \in 1..Len(Digits) : Digits[d] = t) - 1

RECURSIVE DigitsFrom(_, _, _)
DigitsFrom(s, i, acc) ==
    IF i <= Len(s) /\ IsDigit(s[i]) THEN DigitsFrom(s, i + 1, 10 * acc + DigitValue(s[i]))
    ELSE acc

MatchPositions(s) == {i \in 1..Len(s) - 1 : s[i] = "e" /\ IsDigit(s[i + 1])}

\* int(match.group(1)) of the leftmost match, None without a match
episode_ordinal(s) ==
    IF MatchPositions(s) = {} THEN None
    ELSE Some(DigitsFrom(s, Min(MatchPositions(s)) + 1, 0))

\* lines 231-233: re.search is called on every truthy clip_name; nan is truthy
\* and not a string, and re.search raises TypeError for it
re_search_raises(hasClips, clip_name) == hasClips /\ clip_name = NaN

\* lines 229-235
original_episode_idx_of(hasClips, clip_name) ==
    IF hasClips /\ clip_name # <<>> THEN episode_ordinal(clip_name) ELSE None

\* lines 240-248 (camera "top") and 400-410 (the camera being processed):
\* the recorded from_timestamp of the original episode, None when unknown
recorded_from(meta, orig, camera) ==
    IF orig = None \/ meta = None THEN None
    ELSE LET hits == SelectSeq(meta, LAMBDA m : m.episode_index = Val(orig))
         IN  IF hits = <<>> THEN None ELSE hits[1].from_timestamp[camera]

absolute_window(meta, orig, camera, start_time, end_time) ==
    LET f == recorded_from(meta, orig, camera)
    IN  IF f = None THEN <<start_time, end_time>>
        ELSE <<Val(f) + start_time, Val(f) + end_time>>

\* ------------------------------------------------------------ Frame Slicer
\* lines 260-271
filter_rows_end_inclusive(data, orig, start_time, end_time) ==
    SelectSeq(data, LAMBDA r :
        /\ (orig = None \/ r.episode_index = Val(orig))
        /\ r.timestamp >= start_time
        /\ r.timestamp <= end_time)

filter_rows(data, orig, start_time, end_time) ==
    SelectSeq(data, LAMBDA r :
        /\ (orig = None \/ r.episode_index = Val(orig))
        /\ r.timestamp >= start_time
        /\ r.timestamp < end_time)

\* lines 294-299: the index of the new episode's first row
first_index_nogap(extracted) ==
    IF extracted = <<>> THEN 0
    ELSE Max({r.index : r \in Range(extracted[Len(extracted)])})

first_index(extracted) ==
    IF extracted = <<>> THEN 0
    ELSE Max({r.index : r \in Range(extracted[Len(extracted)])}) + 1

\* lines 283-299
renumber_keeps_episode(rows, idx, task_index, first) ==
    [k \in 1..Len(rows) |->
        [episode_index |-> rows[k].episode_index,
         task_index    |-> task_index,
         frame_index   |-> k - 1,
         timestamp     |-> rows[k].timestamp - Min({r.timestamp : r \in Range(rows)}),
         index         |-> first + k - 1,
         src           |-> rows[k].src]]

renumber_payload_reset(rows, idx, task_index, first) ==
    [k \in 1..Len(rows) |->
        [episode_index |-> idx,
         task_index    |-> task_index,
         frame_index   |-> k - 1,
         timestamp     |-> rows[k].timestamp - Min({r.timestamp : r \in Range(rows)}),
         index         |-> first + k - 1,
         src           |-> k - 1]]

renumber(rows, idx, task_index, first) ==
    LET episode_start_timestamp == Min({r.timestamp : r \in Range(rows)})
    IN  [k \in 1..Len(rows) |->
            [episode_index |-> idx,
             task_index    |-> task_index,
             frame_index   |-> k - 1,
             timestamp     |-> rows[k].timestamp - episode_start_timestamp,
             index         |-> first + k - 1,
             src           |-> rows[k].src]]

\* lines 304-319
new_episode_meta_inclusive_end(idx, task, rows, window) ==
    [episode_index      |-> idx,
     tasks              |-> <<task>>,
     length             |-> Len(rows),
     dataset_from_index |-> Min({r.index : r \in Range(rows)}),
     dataset_to_index   |-> Max({r.index : r \in Range(rows)}),
     video              |-> [c \in Range(Cameras) |->
                                [chunk_index    |-> 0,
                                 file_index     |-> idx,
                                 from_timestamp |-> window[1],
                                 to_timestamp   |-> window[2]]]]

new_episode_meta(idx, task, rows, window) ==
    [episode_index      |-> idx,
     tasks              |-> <<task>>,
     length             |-> Len(rows),
     dataset_from_index |-> Min({r.index : r \in Range(rows)}),
     dataset_to_index   |-> Max({r.index : r \in Range(rows)}) + 1,
     video              |-> [c \in Range(Cameras) |->
                                [chunk_index    |-> 0,
                                 file_index     |-> idx,
                                 from_timestamp |-> window[1],
                                 to_timestamp   |-> window[2]]]]

\* lines 278-281: the task registry after the label is looked up
task_map_reassigned(map, next, task) ==
    [t \in DOMAIN map \cup {task} |-> IF t = task THEN next ELSE map[t]]

\* lines 279 and 280 in the other order
task_map_after_increment_first(map, next, task) ==
    IF task \in DOMAIN map THEN map
    ELSE [t \in DOMAIN map \cup {task} |-> IF t = task THEN next + 1 ELSE map[t]]

task_map_after(map, next, task) ==
    IF task \in DOMAIN map THEN map
    ELSE [t \in DOMAIN map \cup {task} |-> IF t = task THEN next ELSE map[t]]

next_task_index_after(map, next, task) == IF task \in DOMAIN map THEN next ELSE next + 1

\* ------------------------------------------------------------------ inputs
\* Source tables: src is the row's payload, here its position in the file.
RawTables ==
    {[i \in 1..Len(t) |-> [episode_index |-> t[i][1], timestamp |-> t[i][2], src |-> i - 1]] :
        t \in SeqsUpTo(SrcRows, MaxRows)}

Requests(hasClips) ==
    [clip_name  : IF hasClips THEN ClipNames ELSE {<<>>},
     window     : Windows,
     task       : Tasks]

start_time_of(row) == row.window[1]
end_time_of(row) == row.window[2]

\* Source episode metadata: one row per source episode with the recorded
\* from_timestamp of each camera (None: the column is missing or NA).
SrcMetaTable ==
    <<[episode_index |-> 0, from_timestamp |-> [c \in Range(Cameras) |-> Some(0)]],
      [episode_index |-> 1, from_timestamp |->
          [c \in Range(Cameras) |-> IF c = "side" THEN None ELSE Some(4)]]>>

SrcMetas == {None, SrcMetaTable}

NoFiles ==
    [dirs     |-> FALSE,     \* output_dataset, data/chunk-000, meta/episodes/chunk-000
     data     |-> None,      \* data/chunk-000/file-000.parquet
     tasks    |-> None,      \* meta/tasks.parquet
     episodes |-> None,      \* meta/episodes/chunk-000/file-000.parquet
     info     |-> None,      \* meta/info.json
     stats    |-> None,      \* meta/stats.json
     video    |-> [c \in Range(Cameras) |-> None],  \* videos/<camera>/chunk-000/file-000.mp4
     temp     |-> [c \in Range(Cameras) |-> None]]  \* videos/<camera>/chunk-000/temp_segments

NoAttempt == [exit |-> "", file |-> "missing"]
NoCall == [pc |-> "idle", window |-> <<0, 0>>, calls |-> <<>>, copy |-> NoAttempt,
           last |-> NoAttempt, ret |-> FALSE]

\* seg before the segment loop reaches the request.  window is the source
\* window handed to extract_video_segment, failed_after the ffmpeg calls made
\* before the extraction was given up.
NoSegment == [result |-> "none", file |-> FALSE, duration |-> 0, probed |-> None,
              window |-> <<0, 0>>, failed_after |-> <<>>]

\* the source table of the runs that do not vary it
VideoTable ==
    <<[episode_index |-> 0, timestamp |-> 0, src |-> 0],
      [episode_index |-> 1, timestamp |-> 1, src |-> 1]>>

\* Any request list with any columns, any source table (one table for the
\* lists line 181 rejects: they are rejected before the table is read), every
\* camera with a source video, a transcoder that never fails.
Init ==
    /\ columns \in SUBSET AllColumns
    /\ has_clip_names = ("clip_name" \in columns)
    /\ csv \in SeqsUpTo(Requests(has_clip_names), MaxReq)
    /\ raw \in IF required_columns \subseteq columns THEN RawTables ELSE {VideoTable}
    /\ src_meta = IF has_clip_names THEN SrcMetaTable ELSE None
    /\ src_videos = Range(Cameras)
    /\ devs = 0
    /\ pc = "start"
    /\ error = ""
    /\ source_data = <<>>
    /\ episodes_meta = None
    /\ csv_idx = 0
    /\ all_extracted_data = <<>>
    /\ episode_metadata = <<>>
    /\ task_map = <<>>
    /\ next_task_index = 0
    /\ cumulative_times = <<>>
    /\ cam = 1
    /\ segment_files = <<>>
    /\ seg = [c \in Range(Cameras) |-> [i \in 0..Len(csv) - 1 |-> NoSegment]]
    /\ out = NoFiles
    /\ xs = NoCall

\* lines 174-221: read the request list, load the table, create the output
\* directories, load the source episode metadata when the list names clips
LoadSource ==
    /\ pc = "start"
    /\ IF missing_columns(columns) # {}
       THEN \* line 181
            /\ pc' = "fatal"
            /\ error' = "ValueError: CSV must have column"
            /\ UNCHANGED <<source_data, episodes_meta, csv_idx, out>>
       ELSE /\ \E s \in load_all_data(raw) : source_data' = s
            /\ out' = [out EXCEPT !.dirs = TRUE]
            /\ episodes_meta' = IF has_clip_names THEN src_meta ELSE None
            /\ csv_idx' = 0
            /\ pc' = "slice"
            /\ error' = error
    /\ UNCHANGED <<inputs, devs, slicing, video>>

\* lines 223-332: one iteration of the slicing loop
SliceEpisode ==
    /\ pc = "slice"
    /\ csv_idx < Len(csv)
    /\ LET row == At0(csv, csv_idx)
           start_time == start_time_of(row)
           end_time == end_time_of(row)
           task == row.task
           original_episode_idx == original_episode_idx_of(has_clip_names, row.clip_name)
           window == absolute_window(episodes_meta, original_episode_idx, "top",
                                     start_time, end_time)
           episode_data == filter_rows(source_data, original_episode_idx,
                                       start_time, end_time)
           task_index == task_map_after(task_map, next_task_index, task)[task]
           renumbered == renumber(episode_data, csv_idx, task_index,
                                  first_index(all_extracted_data))
       IN  IF re_search_raises(has_clip_names, row.clip_name)
           THEN \* line 233
                /\ pc' = "fatal"
                /\ error' = "TypeError: expected string or bytes-like object"
                /\ UNCHANGED <<csv_idx, slicing>>
           ELSE /\ csv_idx' = csv_idx + 1
                /\ UNCHANGED <<pc, error>>
                /\ IF episode_data = <<>>
                   THEN \* lines 273-275: nothing selected, the request is skipped
                        UNCHANGED slicing
                   ELSE /\ task_map' = task_map_after(task_map, next_task_index, task)
                        /\ next_task_index' =
                               next_task_index_after(task_map, next_task_index, task)
                        /\ all_extracted_data' = Append(all_extracted_data, renumbered)
                        /\ episode_metadata' = Append(episode_metadata,
                                new_episode_meta(csv_idx, task, renumbered, window))
    /\ UNCHANGED <<inputs, devs, source_data, episodes_meta, video, out>>

\* line 334: not all_extracted_data
no_episodes_unchecked(extracted) == FALSE

no_episodes(extracted) == extracted = <<>>

\* lines 334-351: combine the episode tables, write the table and the tasks
CombineAndSave ==
    /\ pc = "slice"
    /\ csv_idx = Len(csv)
    /\ IF no_episodes(all_extracted_data)
       THEN /\ pc' = "fatal"
            /\ error' = "ValueError: No episodes were extracted"
            /\ out' = out
       ELSE /\ pc' = "ffmpeg"
            /\ error' = error
            /\ out' = [out EXCEPT !.data = Some(Flatten(all_extracted_data)),
                                  !.tasks = Some(task_map)]
    /\ UNCHANGED <<inputs, devs, source_data, episodes_meta, csv_idx, slicing, video>>

\* ---------------------------------------------------- Video Segment Extractor
\* What one ffmpeg call did: how it ended and the output file it left behind.
\* "error" is a non-zero exit status (CalledProcessError), "notfound" a missing
\* ffmpeg binary (FileNotFoundError).
FileStates == {"missing", "empty", "nonempty"}
CopyAttempts ==
    [exit : {"ok", "error"}, file : FileStates] \cup {[exit |-> "notfound", file |-> "missing"]}
ReencodeAttempts == [exit : {"ok", "error"}, file : FileStates]

\* line 99, line 121: output_video.exists() and output_video.stat().st_size > 0
output_is_usable_exit_only(file) == TRUE

output_is_usable(file) == file = "nonempty"

\* lines 92-100, 125-127: the stream-copy attempt.  next is "return" when the
\* function returns ret, "reencode" when it goes on to the second attempt.
copy_attempt(copy) ==
    IF copy.exit = "ok" THEN [next |-> "return", ret |-> output_is_usable(copy.file)]
    ELSE IF copy.exit = "error" THEN [next |-> "reencode", ret |-> FALSE]
    ELSE [next |-> "return", ret |-> FALSE]

\* lines 114-124: the re-encode attempt
reencode_attempt(reenc) ==
    IF reenc.exit = "ok" THEN output_is_usable(reenc.file) ELSE FALSE

\* lines 69-127: the return value, the ffmpeg calls made and the file left
extract_video_segment(copy, reenc) ==
    IF copy_attempt(copy).next = "return"
    THEN [ret |-> copy_attempt(copy).ret, calls |-> <<"copy">>, file |-> copy.file]
    ELSE [ret |-> reencode_attempt(reenc), calls |-> <<"copy", "reencode">>,
          file |-> reenc.file]

\* what extract_video_segment can do to its caller: the return value, the
\* ffmpeg calls behind it and the file left at output_video
ExtractResults ==
    {extract_video_segment(c, e) : c \in CopyAttempts, e \in ReencodeAttempts}

\* lines 47-66: the probed duration, None when ffprobe fails or prints no number
get_video_duration(file_duration, probe_ok) ==
    IF probe_ok THEN Some(file_duration) ELSE None

\* lines 364-372: the offsets computed from the requested durations
RECURSIVE requested_offsets(_, _)
requested_offsets(rows, k) ==
    IF k = 0 THEN 0
    ELSE requested_offsets(rows, k - 1) + (end_time_of(rows[k]) - start_time_of(rows[k]))

initial_cumulative_times(rows) == [i \in 0..Len(rows) - 1 |-> requested_offsets(rows, i)]

\* a deviation of the transcoder from "extracted, exact duration, probe answers"
Deviation(ret, drift, probe_ok) == IF ret /\ drift = 0 /\ probe_ok THEN 0 ELSE 1

\* lines 353-372, 497-503: look for ffmpeg; with it, seed the timeline
CheckFfmpeg ==
    /\ pc = "ffmpeg"
    /\ \E FFMPEG_AVAILABLE \in BOOLEAN :
        IF FFMPEG_AVAILABLE
        THEN /\ cumulative_times' = initial_cumulative_times(csv)
             /\ cam' = 1
             /\ pc' = "camera"
        ELSE /\ pc' = "info"
             /\ UNCHANGED <<cumulative_times, cam>>
    /\ UNCHANGED <<inputs, devs, error, source_data, episodes_meta, csv_idx, slicing,
                   segment_files, seg, out>>

\* where the camera loop goes after the camera at position c
AfterCamera(c) == IF c < Len(Cameras) THEN "camera" ELSE "save_meta"

\* lines 374-388: the head of the camera loop
StartCamera ==
    /\ pc = "camera"
    /\ LET camera == Cameras[cam]
       IN  IF camera \notin src_videos
           THEN \* lines 376-378: no source video, the camera is skipped
                /\ pc' = AfterCamera(cam)
                /\ cam' = IF cam < Len(Cameras) THEN cam + 1 ELSE cam
                /\ UNCHANGED <<csv_idx, segment_files, out>>
           ELSE /\ pc' = "extract"
                /\ csv_idx' = 0
                /\ segment_files' = <<>>
                /\ out' = [out EXCEPT !.temp[camera] =
                              Some([segments |-> {}, concat_list |-> FALSE])]
                /\ cam' = cam
    /\ UNCHANGED <<inputs, devs, error, source_data, episodes_meta, slicing,
                   cumulative_times, seg>>

\* lines 391-438: one iteration of the segment loop of the current camera
ExtractSegment ==
    /\ pc = "extract"
    /\ csv_idx < Len(csv)
    /\ LET camera == Cameras[cam]
           row == At0(csv, csv_idx)
           duration == end_time_of(row) - start_time_of(row)
           \* lines 397-410
           window == absolute_window(episodes_meta,
                                     original_episode_idx_of(has_clip_names, row.clip_name),
                                     camera, start_time_of(row), end_time_of(row))
       IN  \E r \in ExtractResults, drift \in Drifts, probe_ok \in BOOLEAN :
           LET file_duration == duration + drift
               probed == get_video_duration(file_duration, probe_ok)
               actual_duration == IF probed = None THEN duration ELSE Val(probed)
               episode_start_time == cumulative_times[csv_idx]
               left == [segments |-> Val(out.temp[camera]).segments \cup
                                        (IF r.file = "missing" THEN {} ELSE {csv_idx}),
                        concat_list |-> FALSE]
           IN  /\ Deviation(r.ret, drift, probe_ok) <= devs
               /\ devs' = devs - Deviation(r.ret, drift, probe_ok)
               /\ r.ret => file_duration > 0
               /\ ~r.ret => drift = 0 /\ probe_ok
               /\ out' = [out EXCEPT !.temp[camera] = Some(left)]
               /\ IF r.ret
                  THEN /\ segment_files' = Append(segment_files, csv_idx)
                       /\ seg' = [seg EXCEPT ![camera][csv_idx] =
                                     [result |-> "ok", file |-> TRUE,
                                      duration |-> file_duration, probed |-> probed,
                                      window |-> window, failed_after |-> <<>>]]
                       /\ IF csv_idx >= Len(episode_metadata)
                          THEN \* line 430: episode_metadata[csv_idx] does not exist
                               /\ pc' = "fatal"
                               /\ error' = "IndexError: list index out of range"
                               /\ UNCHANGED <<csv_idx, episode_metadata, cumulative_times>>
                          ELSE /\ episode_metadata' =
                                    [episode_metadata EXCEPT ![csv_idx + 1].video[camera] =
                                        [chunk_index    |-> 0,
                                         file_index     |-> 0,
                                         from_timestamp |-> episode_start_time,
                                         to_timestamp   |-> episode_start_time + actual_duration]]
                               /\ cumulative_times' =
                                    IF csv_idx + 1 < Len(csv)
                                    THEN [cumulative_times EXCEPT ![csv_idx + 1] =
                                             episode_start_time + actual_duration]
                                    ELSE cumulative_times
                               /\ csv_idx' = csv_idx + 1
                               /\ UNCHANGED <<pc, error>>
                  ELSE \* line 438: the segment is left out
                       /\ seg' = [seg EXCEPT ![camera][csv_idx] =
                                     [result |-> "failed", file |-> r.file # "missing",
                                      duration |-> 0, probed |-> None,
                                      window |-> window, failed_after |-> r.calls]]
                       /\ csv_idx' = csv_idx + 1
                       /\ UNCHANGED <<pc, error, segment_files, episode_metadata,
                                      cumulative_times>>
    /\ UNCHANGED <<inputs, source_data, episodes_meta, all_extracted_data, task_map,
                   next_task_index, cam>>

\* the concatenated video: the listed segments in order, each with its duration
concatenated_reversed(camera, files) ==
    [k \in 1..Len(files) |-> [csv_idx |-> files[Len(files) + 1 - k],
                              duration |-> seg[camera][files[Len(files) + 1 - k]].duration]]

concatenated(camera, files) ==
    [k \in 1..Len(files) |-> [csv_idx |-> files[k], duration |-> seg[camera][files[k]].duration]]

\* lines 440-489: concatenate the camera's segments and clean up
ConcatSegments ==
    /\ pc = "extract"
    /\ csv_idx = Len(csv)
    /\ LET camera == Cameras[cam]
           temp == Val(out.temp[camera])
           \* what lines 483-485 leave in temp_segments
           leftover == temp.segments \ Range(segment_files)
       IN  IF segment_files # <<>>
           THEN \E copy_ok \in BOOLEAN, reencode_ok \in BOOLEAN :
                /\ copy_ok => reencode_ok
                /\ (IF copy_ok THEN 0 ELSE 1) <= devs
                /\ devs' = devs - (IF copy_ok THEN 0 ELSE 1)
                /\ IF ~copy_ok /\ ~reencode_ok
                   THEN \* line 479: check=True raises, nothing catches it
                        /\ pc' = "fatal"
                        /\ error' = "CalledProcessError: concat"
                        /\ out' = [out EXCEPT !.temp[camera] =
                                      Some([temp EXCEPT !.concat_list = TRUE])]
                        /\ cam' = cam
                   ELSE IF leftover # {}
                   THEN \* line 486: rmdir of a directory that is not empty
                        /\ pc' = "fatal"
                        /\ error' = "OSError: Directory not empty"
                        /\ out' = [out EXCEPT
                                      !.video[camera] = Some(concatenated(camera, segment_files)),
                                      !.temp[camera] = Some([segments |-> leftover,
                                                             concat_list |-> FALSE])]
                        /\ cam' = cam
                   ELSE /\ pc' = AfterCamera(cam)
                        /\ error' = error
                        /\ out' = [out EXCEPT
                                      !.video[camera] = Some(concatenated(camera, segment_files)),
                                      !.temp[camera] = None]
                        /\ cam' = IF cam < Len(Cameras) THEN cam + 1 ELSE cam
           ELSE /\ devs' = devs
                /\ IF leftover # {}
                   THEN \* line 489: rmdir of a directory that is not empty
                        /\ pc' = "fatal"
                        /\ error' = "OSError: Directory not empty"
                        /\ UNCHANGED <<out, cam>>
                   ELSE /\ pc' = AfterCamera(cam)
                        /\ error' = error
                        /\ out' = [out EXCEPT !.temp[camera] = None]
                        /\ cam' = IF cam < Len(Cameras) THEN cam + 1 ELSE cam
    /\ UNCHANGED <<inputs, source_data, episodes_meta, csv_idx, slicing,
                   cumulative_times, segment_files, seg>>

\* lines 491-496: write the episode metadata
SaveEpisodeMeta ==
    /\ pc = "save_meta"
    /\ out' = [out EXCEPT !.episodes = Some(episode_metadata)]
    /\ pc' = "info"
    /\ UNCHANGED <<inputs, devs, error, source_data, episodes_meta, csv_idx, slicing, video>>

\* lines 505-532: info.json, when the source has one
new_info_from_requests ==
    [total_episodes |-> Len(csv),
     total_frames   |-> Len(Flatten(all_extracted_data)),
     total_tasks    |-> Cardinality(DOMAIN task_map),
     splits_train   |-> <<0, Len(csv)>>]

new_info ==
    [total_episodes |-> Len(episode_metadata),
     total_frames   |-> Len(Flatten(all_extracted_data)),
     total_tasks    |-> Cardinality(DOMAIN task_map),
     splits_train   |-> <<0, Len(episode_metadata)>>]

UpdateInfo ==
    /\ pc = "info"
    /\ \E source_info_exists \in BOOLEAN :
        out' = IF source_info_exists THEN [out EXCEPT !.info = Some(new_info)] ELSE out
    /\ pc' = "stats"
    /\ UNCHANGED <<inputs, devs, error, source_data, episodes_meta, csv_idx, slicing, video>>

\* lines 534-553: stats.json, when the source has one
UpdateStats ==
    /\ pc = "stats"
    /\ \E source_stats_exists \in BOOLEAN :
        out' = IF source_stats_exists
               THEN [out EXCEPT !.stats = Some([num_episodes |-> Len(episode_metadata)])]
               ELSE out
    /\ pc' = "done"
    /\ UNCHANGED <<inputs, devs, error, source_data, episodes_meta, csv_idx, slicing, video>>

Next ==
    \/ LoadSource
    \/ SliceEpisode
    \/ CombineAndSave
    \/ CheckFfmpeg
    \/ StartCamera
    \/ ExtractSegment
    \/ ConcatSegments
    \/ SaveEpisodeMeta
    \/ UpdateInfo
    \/ UpdateStats

Spec == Init /\ [][Next]_vars

\* The same program with any subset of cameras present and a transcoder that
\* deviates up to MaxDev times, over the requests of one task and one table.
InitVideo ==
    /\ has_clip_names \in BOOLEAN
    /\ columns = IF has_clip_names THEN AllColumns ELSE required_columns
    /\ csv \in SeqsUpTo({q \in Requests(has_clip_names) : q.task = "pick"}, MaxReq)
    /\ raw = VideoTable
    /\ src_meta \in IF has_clip_names THEN SrcMetas ELSE {None}
    /\ src_videos \in SUBSET Range(Cameras)
    /\ devs = MaxDev
    /\ pc = "start"
    /\ error = ""
    /\ source_data = <<>>
    /\ episodes_meta = None
    /\ csv_idx = 0
    /\ all_extracted_data = <<>>
    /\ episode_metadata = <<>>
    /\ task_map = <<>>
    /\ next_task_index = 0
    /\ cumulative_times = <<>>
    /\ cam = 1
    /\ segment_files = <<>>
    /\ seg = [c \in Range(Cameras) |-> [i \in 0..Len(csv) - 1 |-> NoSegment]]
    /\ out = NoFiles
    /\ xs = NoCall

SpecVideo == InitVideo /\ [][Next]_vars

\* ------------------------------------------------------------------------
\* extract_video_segment on its own, one ffmpeg call per step, for any window
\* and any behaviour of ffmpeg.
AbsoluteWindows == {<<w[1] + f, w[2] + f>> : w \in Windows, f \in {0, 2, 4}}

\* lines 69-90: the call, before the first attempt
ExtractCall ==
    /\ xs.pc = "idle"
    /\ \E w \in AbsoluteWindows : xs' = [NoCall EXCEPT !.pc = "copy", !.window = w]
    /\ UNCHANGED <<csv, columns, has_clip_names, raw, src_meta, src_videos, devs, pc, error,
                   source_data, episodes_meta, csv_idx, slicing, video, out>>

\* lines 92-100, 125-127: the stream-copy attempt
ExtractCopy ==
    /\ xs.pc = "copy"
    /\ \E a \in CopyAttempts :
        xs' = [xs EXCEPT !.pc = IF copy_attempt(a).next = "return" THEN "returned"
                                ELSE "reencode",
                         !.calls = Append(@, "copy"),
                         !.copy = a,
                         !.last = a,
                         !.ret = copy_attempt(a).ret]
    /\ UNCHANGED <<csv, columns, has_clip_names, raw, src_meta, src_videos, devs, pc, error,
                   source_data, episodes_meta, csv_idx, slicing, video, out>>

\* lines 101-124: the re-encode attempt
ExtractReencode ==
    /\ xs.pc = "reencode"
    /\ \E a \in ReencodeAttempts :
        xs' = [xs EXCEPT !.pc = "returned",
                         !.calls = Append(@, "reencode"),
                         !.last = a,
                         !.ret = reencode_attempt(a)]
    /\ UNCHANGED <<csv, columns, has_clip_names, raw, src_meta, src_videos, devs, pc, error,
                   source_data, episodes_meta, csv_idx, slicing, video, out>>

\* the caller takes the result
ExtractReturn ==
    /\ xs.pc = "returned"
    /\ xs' = NoCall
    /\ UNCHANGED <<csv, columns, has_clip_names, raw, src_meta, src_videos, devs, pc, error,
                   source_data, episodes_meta, csv_idx, slicing, video, out>>

InitExtract ==
    /\ has_clip_names = FALSE
    /\ columns = required_columns
    /\ csv = <<>>
    /\ raw = <<>>
    /\ src_meta = None
    /\ src_videos = {}
    /\ devs = 0
    /\ pc = "start"
    /\ error = ""
    /\ source_data = <<>>
    /\ episodes_meta = None
    /\ csv_idx = 0
    /\ all_extracted_data = <<>>
    /\ episode_metadata = <<>>
    /\ task_map = <<>>
    /\ next_task_index = 0
    /\ cumulative_times = <<>>
    /\ cam = 1
    /\ segment_files = <<>>
    /\ seg = [c \in Range(Cameras) |-> <<>>]
    /\ out = NoFiles
    /\ xs = NoCall

NextExtract == ExtractCall \/ ExtractCopy \/ ExtractReencode \/ ExtractReturn

SpecExtract == InitExtract /\ [][NextExtract]_vars

\* The step-by-step call and extract_video_segment agree.
ExtractAgrees ==
    xs.pc = "returned" =>
        \E e \in ReencodeAttempts :
            /\ Len(xs.calls) = 2 => e = xs.last
            /\ extract_video_segment(xs.copy, e) =
                   [ret |-> xs.ret, calls |-> xs.calls, file |-> xs.last.file]

\* ========================================================================
\* Properties
\* ========================================================================
Request(i) == At0(csv, i)

\* the requests whose filter selects at least one row of the source table
KeptRequests ==
    {i \in 0..Len(csv) - 1 :
        filter_rows(raw, original_episode_idx_of(has_clip_names, Request(i).clip_name),
                    start_time_of(Request(i)), end_time_of(Request(i))) # <<>>}

DroppedRequests == (0..Len(csv) - 1) \ KeptRequests

\* the slicing loop ran to its end
SlicingOver ==
    /\ pc \notin {"start", "slice"}
    /\ error \notin {"ValueError: CSV must have column",
                     "TypeError: expected string or bytes-like object"}

EpisodeRows(table, e) == SelectSeq(table, LAMBDA r : r.episode_index = e)

EpisodesOf(table) == {table[k].episode_index : k \in 1..Len(table)}

\* C1: in a completed run, for every camera with a concatenated video, the
\* first output episode starts at 0 and every later output episode starts
\* where the one before it ends.
C1_OffsetsChain ==
    (pc = "done" /\ out.episodes # None) =>
        \A c \in Range(Cameras) :
            out.video[c] # None =>
                LET M == Val(out.episodes)
                IN  /\ M[1].video[c].from_timestamp = 0
                    /\ \A k \in 2..Len(M) :
                          M[k].video[c].from_timestamp = M[k - 1].video[c].to_timestamp

\* C2: for every camera and every output episode whose segment was extracted,
\* the written to_timestamp - from_timestamp is the duration of the segment
\* file, also when the duration probe gives no value.
C2_MeasuredDurations ==
    (pc = "done" /\ out.episodes # None) =>
        \A c \in Range(Cameras) :
            LET M == Val(out.episodes)
            IN  \A k \in 1..Len(M) :
                    seg[c][M[k].episode_index].result = "ok" =>
                        M[k].video[c].to_timestamp - M[k].video[c].from_timestamp
                            = seg[c][M[k].episode_index].duration

\* C3: a request that selects no rows gets no metadata row and no table rows,
\* and the run goes on through the later requests and stages: it does not
\* end in an error.
C3_DroppedRequestDoesNotStopRun ==
    (SlicingOver /\ DroppedRequests # {} /\ KeptRequests # {}) =>
        /\ {m.episode_index : m \in Range(episode_metadata)} = KeptRequests
        /\ EpisodesOf(Flatten(all_extracted_data)) = KeptRequests
        /\ pc # "fatal"

\* C4: the index column of the written table is 0, 1, ..., T-1 in row order.
C4_IndexContiguous ==
    out.data # None =>
        LET T == Val(out.data) IN \A k \in 1..Len(T) : T[k].index = k - 1

C4_Witness ==
    /\ out.data # None
    /\ Len(all_extracted_data) = 2
    /\ Len(Val(out.data)) = 4

\* C5: within every output episode frame_index is 0..N-1 in row order, the
\* first row's timestamp is 0 and timestamp never decreases along the rows.
C5_EpisodeRowsRebased ==
    out.data # None =>
        \A e \in EpisodesOf(Val(out.data)) :
            LET rows == EpisodeRows(Val(out.data), e)
            IN  /\ \A j \in 1..Len(rows) : rows[j].frame_index = j - 1
                /\ rows[1].timestamp = 0
                /\ \A j \in 1..Len(rows) - 1 : rows[j].timestamp <= rows[j + 1].timestamp

\* a source file that is not in timestamp order, one episode through the
\* primary filter and one through the fallback filter, two rows each
C5_Witness ==
    /\ out.data # None
    /\ Len(raw) = 2
    /\ raw[1].timestamp > raw[2].timestamp
    /\ Len(csv) = 2
    /\ episode_ordinal(csv[1].clip_name) # None
    /\ episode_ordinal(csv[2].clip_name) = None
    /\ Len(all_extracted_data) = 2
    /\ \A e \in 1..2 : /\ Len(all_extracted_data[e]) = 2
                       /\ all_extracted_data[e][2].timestamp = 1

\* C6 (as amended): whenever info is written, total_episodes is the number of
\* OutputEpisodeMeta rows, total_frames the number of rows of the written
\* table and total_tasks the number of entries of the written task table;
\* when a request was dropped, total_episodes and total_tasks are not the
\* length of the request list.
C6_InfoTotals ==
    out.info # None =>
        LET info == Val(out.info)
        IN  /\ info.total_episodes = Len(episode_metadata)
            /\ info.total_episodes = Cardinality(KeptRequests)
            /\ info.total_frames = Len(Val(out.data))
            /\ info.total_tasks = Cardinality(DOMAIN Val(out.tasks))
            /\ DroppedRequests # {} =>
                  /\ info.total_episodes # Len(csv)
                  /\ info.total_tasks # Len(csv)

\* C6 as stated: ... and none of the three totals is the length of the
\* request list when a request was dropped.
C6_InfoTotalsNeverRequestLength ==
    out.info # None =>
        LET info == Val(out.info)
        IN  /\ info.total_episodes = Len(episode_metadata)
            /\ info.total_frames = Len(Val(out.data))
            /\ info.total_tasks = Cardinality(DOMAIN Val(out.tasks))
            /\ DroppedRequests # {} =>
                  /\ info.total_episodes # Len(csv)
                  /\ info.total_frames # Len(csv)
                  /\ info.total_tasks # Len(csv)

C6_Witness ==
    /\ out.info # None
    /\ DroppedRequests # {}
    /\ KeptRequests # {}

\* the request that first carries the label, among the requests in S
FirstWith(S, t) == Min({i \in S : Request(i).task = t})

\* the number of labels that occur in S before the label t does
FirstOccurrenceRank(S, t) ==
    Cardinality({Request(i).task : i \in {j \in S : j < FirstWith(S, t)}})

\* C7 (as amended): a label gets the index len(registry) at its first
\* occurrence among the requests that are not dropped and keeps it at every
\* later occurrence, so the indices are 0..k-1 in the order of first
\* occurrence among the kept requests: the mapping is a function of the
\* ordered request list and the source table.
C7_TaskIndexFirstKeptOccurrence ==
    SlicingOver =>
        /\ DOMAIN task_map = {Request(i).task : i \in KeptRequests}
        /\ \A t \in DOMAIN task_map : task_map[t] = FirstOccurrenceRank(KeptRequests, t)
        /\ \A e \in 1..Len(all_extracted_data) :
              \A k \in 1..Len(all_extracted_data[e]) :
                  LET r == all_extracted_data[e][k]
                  IN  r.task_index = task_map[Request(r.episode_index).task]

\* C7 as stated: first occurrence across all requests, a function of the
\* ordered request list alone.
C7_TaskIndexFirstOccurrence ==
    SlicingOver =>
        \A t \in DOMAIN task_map :
            task_map[t] = FirstOccurrenceRank(0..Len(csv) - 1, t)

\* the first request is dropped and the second, with another label, is kept
C7_Witness ==
    /\ SlicingOver
    /\ Len(csv) = 2
    /\ DroppedRequests = {0}
    /\ Request(0).task # Request(1).task
    /\ task_map[Request(1).task] = 0

\* C8: extract_video_segment returns failure only after the re-encode attempt
\* was made, whenever the stream-copy attempt ran and failed (non-zero exit,
\* or exit 0 with a missing or empty output file).
C8_FailureOnlyAfterReencode ==
    (xs.pc = "returned" /\ ~xs.ret /\ xs.copy.exit \in {"ok", "error"}) =>
        xs.calls = <<"copy", "reencode">>

\* C9: extract_video_segment returns success only if the output file exists
\* and is non-empty after the attempt that produced it.
C9_SuccessOnlyWithOutput ==
    (xs.pc = "returned" /\ xs.ret) => xs.last.file = "nonempty"

\* ffmpeg exited with status 0 and left an empty file
C9_Witness ==
    /\ xs.pc = "returned"
    /\ xs.last.exit = "ok"
    /\ xs.last.file = "empty"
    /\ ~xs.ret

\* C10: when both concatenation attempts fail for a camera the run does not
\* abort.
C10_ConcatFailureNotFatal ==
    error = "CalledProcessError: concat" => pc # "fatal"

\* the segments of the camera's concatenated video
SegmentsIn(c) == IF out.video[c] = None THEN {}
                 ELSE {Val(out.video[c])[k].csv_idx : k \in 1..Len(Val(out.video[c]))}

\* C11: when both extraction attempts fail for a segment of a camera, the
\* segment is left out of that camera's concatenation and the failure does
\* not end the run: the camera's cleanup does not raise.
C11_FailedSegmentOnlySkipped ==
    \A c \in Range(Cameras) :
        \A i \in DOMAIN seg[c] :
            seg[c][i].failed_after = <<"copy", "reencode">> =>
                /\ i \notin SegmentsIn(c)
                /\ c = Cameras[cam] => i \notin Range(segment_files)
                /\ ~(pc = "fatal" /\ error = "OSError: Directory not empty")

\* C12: a request list without one of the columns start_time, end_time, task
\* ends the run with an error at once: no table row is loaded or sliced and
\* no output directory or file is created.
C12_MalformedRequestAborts ==
    ~({"start_time", "end_time", "task"} \subseteq columns) =>
        /\ pc \in {"start", "fatal"}
        /\ pc = "fatal" => error = "ValueError: CSV must have column"
        /\ source_data = <<>>
        /\ all_extracted_data = <<>>
        /\ episode_metadata = <<>>
        /\ out = NoFiles

\* a list without the task column whose rows would select table rows
C12_Witness ==
    /\ pc = "fatal"
    /\ columns = {"clip_name", "start_time", "end_time"}
    /\ Len(csv) = 2
    /\ KeptRequests # {}

\* the table, the task table or a video is in the output dataset
Published == out.data # None \/ out.tasks # None \/ \E c \in Range(Cameras) : out.video[c] # None

\* C13: when the run ends with a fatal error, the output dataset holds no
\* table, task or video file without the episode metadata and the info
\* that go with them.
C13_NoPartialPublication ==
    pc = "fatal" => (Published => out.episodes # None /\ out.info # None)

\* C14: a run that completes without a fatal error has written the episode
\* metadata file, with one row per request that was not dropped, whether or
\* not ffmpeg is available and whether or not any camera has a source video.
C14_EpisodeMetaAlwaysWritten ==
    pc = "done" =>
        /\ out.episodes # None
        /\ {m.episode_index : m \in Range(Val(out.episodes))} = KeptRequests
        /\ Len(Val(out.episodes)) = Cardinality(KeptRequests)

\* C15: the train split written to info is 0:E with E the number of output
\* episodes, and every episode_index of the written table and of the
\* episode metadata lies in 0..E-1.
C15_SplitCoversEpisodes ==
    out.info # None =>
        LET split == Val(out.info).splits_train
            E == Len(episode_metadata)
            InSplit(e) == split[1] <= e /\ e < split[2]
        IN  /\ split = <<0, E>>
            /\ \A e \in EpisodesOf(Val(out.data)) : InSplit(e)
            /\ \A m \in Range(episode_metadata) : InSplit(m.episode_index)

\* the length of the camera's concatenated video
RECURSIVE TotalDuration(_)
TotalDuration(v) == IF v = <<>> THEN 0 ELSE Head(v).duration + TotalDuration(Tail(v))

\* C16: for every episode and camera of the written episode metadata, the
\* video file the row names exists in the output dataset and the row's
\* offsets are positions inside that file.
C16_MetadataNamesFinalizedVideo ==
    out.episodes # None =>
        \A m \in Range(Val(out.episodes)) :
            \A c \in Range(Cameras) :
                /\ out.video[c] # None
                /\ m.video[c].chunk_index = 0
                /\ m.video[c].file_index = 0
                /\ 0 <= m.video[c].from_timestamp
                /\ m.video[c].from_timestamp <= m.video[c].to_timestamp
                /\ m.video[c].to_timestamp <= TotalDuration(Val(out.video[c]))

\* C18: once a camera's concatenated video is written, no temporary segment
\* file and no temporary segment directory of that camera is left, whatever
\* the extractions of its segments did.
C18_NoTempAfterConcat ==
    \A c \in Range(Cameras) : out.video[c] # None => out.temp[c] = None

\* the source metadata rows of the episode the clip name points to
RowsOfOrdinal(q) ==
    IF src_meta = None \/ MatchPositions(q.clip_name) = {} THEN <<>>
    ELSE SelectSeq(src_meta, LAMBDA m : Some(m.episode_index) = episode_ordinal(q.clip_name))

\* the request gives the resolver no recorded offset of the camera: there is
\* no clip_name column, the cell is empty, the name does not match
\* episode_<digits>, or the ordinal has no metadata row or no offset there
MissingInformation(q, c) ==
    \/ ~has_clip_names
    \/ q.clip_name \in {<<>>, NaN}
    \/ MatchPositions(q.clip_name) = {}
    \/ RowsOfOrdinal(q) = <<>>
    \/ RowsOfOrdinal(q)[1].from_timestamp[c] = None

\* C17: the resolver does not raise for a request with missing information:
\* the request is processed, with the raw request times as absolute offsets.
C17_ResolverNeverRaises ==
    /\ error # "TypeError: expected string or bytes-like object"
    /\ pc \in {"slice", "ffmpeg"} =>
          \A m \in Range(episode_metadata) :
              MissingInformation(Request(m.episode_index), "top") =>
                  /\ m.video["top"].from_timestamp = start_time_of(Request(m.episode_index))
                  /\ m.video["top"].to_timestamp = end_time_of(Request(m.episode_index))

\* the window the request should get for the camera
ExpectedWindow(q, c) ==
    IF MissingInformation(q, c) THEN <<start_time_of(q), end_time_of(q)>>
    ELSE <<Val(RowsOfOrdinal(q)[1].from_timestamp[c]) + start_time_of(q),
           Val(RowsOfOrdinal(q)[1].from_timestamp[c]) + end_time_of(q)>>

\* the window handed to extract_video_segment for the camera's segments
ExtractionWindowsAsExpected(c) ==
    \A i \in DOMAIN seg[c] :
        seg[c][i].result # "none" => seg[c][i].window = ExpectedWindow(Request(i), c)

\* the window recorded for the camera when the episode is sliced
SlicedWindowsAsExpected(c) ==
    pc \in {"slice", "ffmpeg"} =>
        \A m \in Range(episode_metadata) :
            <<m.video[c].from_timestamp, m.video[c].to_timestamp>>
                = ExpectedWindow(Request(m.episode_index), c)

\* C19: for each camera, the absolute source window of an episode, both the
\* one recorded for the camera when the episode is sliced and the one handed
\* to the segment extraction, is the camera's recorded from-offset of the
\* original episode plus the request's start and end time when the clip name
\* gives an ordinal with a metadata row carrying that offset, and the raw
\* request times in every other case.
C19_WindowPerCamera ==
    \A c \in Range(Cameras) : ExtractionWindowsAsExpected(c) /\ SlicedWindowsAsExpected(c)

\* the source rows (by payload) the request is to select
RowsToSelect(q) ==
    {r.src : r \in {x \in Range(raw) :
        /\ start_time_of(q) <= x.timestamp
        /\ x.timestamp < end_time_of(q)
        /\ \/ ~has_clip_names
           \/ MatchPositions(q.clip_name) = {}
           \/ Some(x.episode_index) = episode_ordinal(q.clip_name)}}

\* C20: after every iteration of the slicing loop, the rows of the episode
\* of each request gone through are exactly the source rows with
\* start_time <= timestamp < end_time, of the original episode when the
\* request names one and of any episode when it names none; a request for
\* which there is no such row gives no episode.
C20_FilterSelection ==
    pc = "slice" =>
        \A i \in 0..csv_idx - 1 :
            LET rows == EpisodeRows(Flatten(all_extracted_data), i)
            IN  /\ {rows[k].src : k \in 1..Len(rows)} = RowsToSelect(Request(i))
                /\ Len(rows) = Cardinality(RowsToSelect(Request(i)))

\* a request naming episode 1 that selects nothing although a row of episode
\* 0 lies in its time range, and a request naming no episode that selects
\* that row and leaves out a row whose timestamp is its end_time
C20_Witness ==
    /\ pc = "slice"
    /\ csv_idx = Len(csv)
    /\ Len(csv) = 2
    /\ episode_ordinal(csv[1].clip_name) = Some(1)
    /\ episode_ordinal(csv[2].clip_name) = None
    /\ csv[1].window = <<0, 1>>
    /\ csv[2].window = <<0, 1>>
    /\ {<<r.episode_index, r.timestamp>> : r \in Range(raw)} = {<<0, 0>>, <<1, 1>>}
    /\ Len(all_extracted_data) = 1
    /\ Len(all_extracted_data[1]) = 1
    /\ all_extracted_data[1][1].episode_index = 1

\* the source episode of the first row of the k-th output episode
SourceEpisodeOf(k) == raw[all_extracted_data[k][1].src + 1].episode_index

\* C21: for each camera, the segments of the concatenation list and of the
\* concatenated video are in request row order.
C21_ConcatInRequestOrder ==
    /\ \A k \in 1..Len(segment_files) - 1 : segment_files[k] < segment_files[k + 1]
    /\ \A c \in Range(Cameras) :
          out.video[c] # None =>
              \A k \in 1..Len(Val(out.video[c])) - 1 :
                  Val(out.video[c])[k].csv_idx < Val(out.video[c])[k + 1].csv_idx

\* the first request takes source episode 1 and the second source episode 0,
\* which comes first in the source, and both are in the concatenated video
C21_Witness ==
    /\ out.video["front"] # None
    /\ Len(Val(out.video["front"])) = 2
    /\ Len(all_extracted_data) = 2
    /\ SourceEpisodeOf(1) = 1
    /\ SourceEpisodeOf(2) = 0
    /\ raw[1].episode_index = 0

\* the duration the camera's timeline takes for its extracted segment
OwnMeasured(c, i) ==
    IF seg[c][i].probed = None THEN end_time_of(Request(i)) - start_time_of(Request(i))
    ELSE Val(seg[c][i].probed)

\* the start the timeline of lines 364-372, 429-436 gives request i when it is
\* run for the camera alone, on the camera's own extraction results
RECURSIVE OwnStart(_, _)
OwnStart(c, i) ==
    IF i = 0 THEN 0
    ELSE IF seg[c][i - 1].result = "ok" THEN OwnStart(c, i - 1) + OwnMeasured(c, i - 1)
    ELSE requested_offsets(csv, i)

\* C22: the offsets written for a camera are those of a timeline of its own:
\* they start from 0 and follow from that camera's extraction results and
\* measured durations alone, whatever the other cameras' extractions did.
C22_TimelinePerCamera ==
    (pc = "done" /\ out.episodes # None /\ DroppedRequests = {}) =>
        \A c \in Range(Cameras) :
            \A i \in DOMAIN seg[c] :
                seg[c][i].result = "ok" =>
                    LET m == At0(Val(out.episodes), i)
                    IN  /\ m.video[c].from_timestamp = OwnStart(c, i)
                        /\ m.video[c].to_timestamp = OwnStart(c, i) + OwnMeasured(c, i)

\* the rows' index ranges tile 0..T-1 in row order
IndexRangesChain(M) ==
    /\ \A k \in 1..Len(M) : M[k].dataset_to_index - M[k].dataset_from_index = M[k].length
    /\ M # <<>> => M[1].dataset_from_index = 0
    /\ \A k \in 2..Len(M) : M[k].dataset_from_index = M[k - 1].dataset_to_index

\* C23: after every iteration of the slicing loop and in the written episode
\* metadata, every OutputEpisodeMeta row has dataset_to_index -
\* dataset_from_index = length, the first row's dataset_from_index is 0 and
\* every later row's dataset_from_index is the dataset_to_index of the row
\* before it.
C23_DatasetIndexRanges ==
    /\ pc = "slice" => IndexRangesChain(episode_metadata)
    /\ (pc = "info" /\ out.episodes # None) => IndexRangesChain(Val(out.episodes))

\* two episodes of two rows each
C23_Witness ==
    /\ pc = "slice"
    /\ csv_idx = Len(csv)
    /\ Len(episode_metadata) = 2
    /\ episode_metadata[1].length = 2
    /\ episode_metadata[2].dataset_from_index = 2
    /\ episode_metadata[2].dataset_to_index = 4

\* the rows of the loaded table the request is to select, in the table's order
SelectedInOrder(q) == SelectSeq(source_data, LAMBDA r : r.src \in RowsToSelect(q))

\* C24: after every iteration of the slicing loop, the rows of every output
\* episode carry the payload of the selected rows of the loaded table, row by
\* row in the table's order, and have no column besides the payload and
\* episode_index, task_index, frame_index, timestamp, index.
C24_PayloadCarried ==
    pc = "slice" =>
        \A e \in 1..Len(all_extracted_data) :
            LET rows == all_extracted_data[e]
                selected == SelectedInOrder(Request(rows[1].episode_index))
            IN  /\ Len(rows) = Len(selected)
                /\ \A k \in 1..Len(rows) :
                      /\ rows[k].src = selected[k].src
                      /\ DOMAIN rows[k] = {"episode_index", "task_index", "frame_index",
                                           "timestamp", "index", "src"}

\* an episode of two rows that come in the source file in the other order
C24_Witness ==
    /\ pc = "slice"
    /\ csv_idx = Len(csv)
    /\ Len(all_extracted_data) = 2
    /\ Len(all_extracted_data[2]) = 2
    /\ all_extracted_data[2][1].src = 1
    /\ all_extracted_data[2][2].src = 0

\* C25: a step of the segment loop for request row r changes the
\* OutputEpisodeMeta row of episode r only: every row with another
\* episode_index is left as it is.
C25_TimelineUpdateOwnRow ==
    [][pc = "extract" =>
          \A k \in 1..Len(episode_metadata) :
              episode_metadata'[k] # episode_metadata[k] =>
                  episode_metadata[k].episode_index = csv_idx]_vars

\* C26: a camera's concatenated video holds segments of output episodes
\* only, none of a request that was dropped for selecting no table row.
C26_NoSegmentForDroppedRequest ==
    \A c \in Range(Cameras) : SegmentsIn(c) \subseteq KeptRequests

\* where the k-th segment of the concatenated video starts
StartInVideo(v, k) == TotalDuration(SubSeq(v, 1, k - 1))

\* every extracted segment of the camera was measured, and measured right
AllMeasured(c) ==
    \A i \in DOMAIN seg[c] :
        seg[c][i].result = "ok" => seg[c][i].probed = Some(seg[c][i].duration)

\* C27: for every camera and every episode whose segment is in the camera's
\* concatenated video, the written from_timestamp is where the segment
\* starts in that video: the sum of the measured durations of the segments
\* before it, also when an earlier extraction failed for the camera.
C27_FromIsTruePosition ==
    (pc = "done" /\ out.episodes # None) =>
        \A c \in Range(Cameras) :
            (out.video[c] # None /\ AllMeasured(c)) =>
                LET v == Val(out.video[c])
                IN  \A k \in 1..Len(v) :
                        \A m \in Range(Val(out.episodes)) :
                            m.episode_index = v[k].csv_idx =>
                                m.video[c].from_timestamp = StartInVideo(v, k)

\* the table T and the metadata rows M describe the same episodes
TableAgreesWithMeta(T, M) ==
    /\ EpisodesOf(T) = {M[k].episode_index : k \in 1..Len(M)}
    /\ \A k \in 1..Len(M) :
          /\ M[k].length = Len(EpisodeRows(T, M[k].episode_index))
          /\ {j \in 1..Len(T) : T[j].episode_index = M[k].episode_index}
                 = {j \in 1..Len(T) : /\ M[k].dataset_from_index <= T[j].index
                                      /\ T[j].index < M[k].dataset_to_index}

\* C28: the written table and the episode metadata agree, when the table is
\* written and when the metadata is written: they have the same set of
\* episode_index values, each metadata row's length is the number of table
\* rows of its episode, and those rows are exactly the rows with index in
\* [dataset_from_index, dataset_to_index).
C28_TableAgreesWithMeta ==
    /\ pc = "ffmpeg" => TableAgreesWithMeta(Val(out.data), episode_metadata)
    /\ (pc = "info" /\ out.episodes # None) =>
          TableAgreesWithMeta(Val(out.data), Val(out.episodes))

\* written metadata of two episodes of two rows each, cut from source
\* episode 1
C28_Witness ==
    /\ pc = "info"
    /\ out.episodes # None
    /\ Len(Val(out.episodes)) = 2
    /\ \A k \in 1..2 : Val(out.episodes)[k].length = 2
    /\ Len(Val(out.data)) = 4
    /\ \A r \in Range(raw) : r.episode_index = 1

\* C29: the written task table and the written table agree: every task_index
\* of a table row is an index of the task table, every label of the task
\* table is the task of at least one output episode (whose rows carry the
\* label's index), and the indices of the task table are exactly 0..k-1, one
\* per label, also when requests are dropped.
C29_TaskTableAgreesWithTable ==
    pc = "ffmpeg" =>
        LET T == Val(out.data)
            tasks == Val(out.tasks)
        IN  /\ \A j \in 1..Len(T) : \E t \in DOMAIN tasks : T[j].task_index = tasks[t]
            /\ \A t \in DOMAIN tasks :
                  \E j \in 1..Len(T) : /\ Request(T[j].episode_index).task = t
                                       /\ T[j].task_index = tasks[t]
            /\ {tasks[t] : t \in DOMAIN tasks} = 0..Cardinality(DOMAIN tasks) - 1
            /\ \A t, u \in DOMAIN tasks : tasks[t] = tasks[u] => t = u

\* the table and the task table are written after the first request, with
\* another label than the second, was dropped
C29_Witness ==
    /\ pc = "ffmpeg"
    /\ out.tasks # None
    /\ DroppedRequests = {0}
    /\ Request(0).task # Request(1).task
    /\ DOMAIN Val(out.tasks) = {Request(1).task}

\* C30: when the slicing loop has matched every request against the table and
\* every request selected zero rows, the run is ended by the fatal error
\* 'No episodes were extracted' and no table, task, episode-metadata, info
\* or stats file is written.
C30_NoEpisodesIsFatal ==
    (SlicingOver /\ KeptRequests = {}) =>
        /\ pc = "fatal"
        /\ error = "ValueError: No episodes were extracted"
        /\ out.data = None
        /\ out.tasks = None
        /\ out.episodes = None
        /\ out.info = None
        /\ out.stats = None

\* two requests against a table with rows, both selecting nothing: the run
\* has ended with the error, the output directories exist
C30_Witness ==
    /\ pc = "fatal"
    /\ error = "ValueError: No episodes were extracted"
    /\ Len(csv) = 2
    /\ raw # <<>>
    /\ DroppedRequests = {0, 1}
    /\ out.dirs

====
